---- MODULE Spec2Model ----
(***************************************************************************)
(* Unmanaged GC memory helpers (src/Native/Runtime/GCMemoryHelpers.cpp).   *)
(*                                                                         *)
(* A mutator thread runs one helper call against a small byte-addressed    *)
(* heap window; every store of the call is one step, so that an observer   *)
(* thread (a reader of reference slots, the collector) can run between     *)
(* any two stores.  The helpers inlined from GCMemoryHelpers.inl           *)
(* (InlineGCSafeFillMemory, InlineForwardGCSafeCopy,                       *)
(* InlineBackwardGCSafeCopy, InlinedBulkWriteBarrier) are modelled from    *)
(* their documented behaviour.                                             *)
(***************************************************************************)
EXTENDS Integers, Sequences, FiniteSets, TLC

\* Number of pointer-sized words in the heap window.
MemWords == 4
\* Longest fill/copy length, in pointer-sized words.
MaxWords == 3
\* Number of times the same call is issued in a row.
MaxCalls == 2

VARIABLES
    ptrSize,    \* POINTER_SIZE of the build: 4 or 8
    mem,        \* the heap window: address -> byte
    pc,         \* mutator position: 0 before the call, then the index of the running statement of frame.body; Aborted, Faulted
    frame,      \* the running call: entry point, arguments, and what it hands to the inlined helpers
    n,          \* bytes the running helper has stored so far
    pre,        \* memory when the running call began
    first,      \* memory when the first call returned
    calls,      \* calls that have returned
    log,        \* write-barrier recorder: the notifications received, in order
    preLog,     \* the recorder's log when the running call began
    seen,       \* the observer has seen the running call's barrier record
    sample,     \* the observer's last word-sized load and whether it followed `seen`
    wide,       \* a barriered call seen at full width: lengths as machine integers, the copy as its extent
    debug       \* the build has ASSERT compiled in

vars == <<ptrSize, mem, pc, frame, n, pre, first, calls, log, preLog, seen, sample, wide, debug>>

\* ------------------------------------------------------------------ memory

\* Address 0 is nullptr; the window starts at the first word above it.
HeapLo == ptrSize
HeapHi == ptrSize * (MemWords + 1)
Heap == HeapLo .. (HeapHi - 1)

IS_ALIGNED(a) == a % ptrSize = 0
WordAddrs == {a \in Heap : IS_ALIGNED(a)}

Load(m, a) == IF a \in DOMAIN m THEN m[a] ELSE 0

\* A word is its bytes, byte 0 at the lowest address.
WordAt(m, a) == [i \in 0..(ptrSize - 1) |-> Load(m, a + i)]

StoreByte(m, a, b) == [x \in DOMAIN m |-> IF x = a THEN b ELSE m[x]]

\* One pointer-sized store.
StoreWord(m, a, w) == [x \in DOMAIN m |-> IF a <= x /\ x < a + ptrSize THEN w[x - a] ELSE m[x]]

InitialMemory == [a \in Heap |-> 16 + (a - HeapLo)]

\* ------------------------------------------------------------------ machine integers

UInt8(c) == c % 256

RECURSIVE BitOr(_, _)
BitOr(a, b) ==
    IF a = 0 THEN b
    ELSE IF b = 0 THEN a
    ELSE (IF a % 2 = 1 \/ b % 2 = 1 THEN 1 ELSE 0) + 2 * BitOr(a \div 2, b \div 2)

ZeroWord == [i \in 0..(ptrSize - 1) |-> 0]

\* (UIntNative)x for a byte x
NativeOfByte(b) == [i \in 0..(ptrSize - 1) |-> IF i = 0 THEN b ELSE 0]

\* w << k*8 in a UIntNative
ShiftLeftBytes(w, k) == [i \in 0..(ptrSize - 1) |-> IF i >= k THEN w[i - k] ELSE 0]

WordOr(x, y) == [i \in 0..(ptrSize - 1) |-> BitOr(x[i], y[i])]

\* A wider integer is its 16-bit limbs, least significant first.
LimbBase == 2^16
ToLimbs(x) == <<x % LimbBase, (x \div LimbBase) % LimbBase, 0, 0>>
LimbValue(l) == l[1] + LimbBase * l[2]

\* (UInt32)x keeps the low 32 bits.
NarrowTo32(l) == <<l[1], l[2]>>
UInt32(x) == LimbValue(NarrowTo32(ToLimbs(x)))

\* ------------------------------------------------------------------ entry points

\* Variant: the byte is not replicated into the upper bytes of the word.
InitPattern_LowByteOnly(c) == NativeOfByte(UInt8(c))

\* Variant: the POINTER_SIZE == 8 half of the pattern is left out.
InitPattern_NoHighHalf(c) ==
    LET bv == NativeOfByte(UInt8(c))
    IN  IF bv # ZeroWord
        THEN WordOr(WordOr(WordOr(ShiftLeftBytes(bv, 3), ShiftLeftBytes(bv, 2)),
                           ShiftLeftBytes(bv, 1)), bv)
        ELSE ZeroWord

\* pv of RhpInitMultibyte: the fill byte replicated over a UIntNative.
InitPattern(c) ==
    LET bv == NativeOfByte(UInt8(c))
        low == WordOr(WordOr(WordOr(ShiftLeftBytes(bv, 3), ShiftLeftBytes(bv, 2)),
                             ShiftLeftBytes(bv, 1)), bv)
        high == WordOr(WordOr(WordOr(ShiftLeftBytes(bv, 7), ShiftLeftBytes(bv, 6)),
                              ShiftLeftBytes(bv, 5)), ShiftLeftBytes(bv, 4))
    IN  IF bv # ZeroWord
        THEN (IF ptrSize = 8 THEN WordOr(high, low) ELSE low)
        ELSE ZeroWord

\* Each entry point is the frame of its call: the caller's arguments (dest, src,
\* len, c), its statements in order (body: the inlined helpers "fill", "fwd",
\* "bwd" and "barrier"), the arguments it hands to the fill or copy helper
\* (d, s, cnt, pv) and to the bulk write barrier (bstart, bsize), and what it
\* returns (ret).
\* Variant: the fill starts at the word boundary below pMem.
RhpInitMultibyte_FromWordBelow(pMem, c, size) ==
    [name |-> "RhpInitMultibyte", dest |-> pMem, src |-> pMem, len |-> size, c |-> c,
     body |-> <<"fill">>, d |-> pMem - (pMem % ptrSize), s |-> pMem,
     cnt |-> size + (pMem % ptrSize), pv |-> InitPattern(c),
     bstart |-> 0, bsize |-> 0, ret |-> pMem,
     asserts |-> <<pMem>>]

\* Variant: the fill runs through the end address inclusive.
RhpInitMultibyte_OneMore(pMem, c, size) ==
    [name |-> "RhpInitMultibyte", dest |-> pMem, src |-> pMem, len |-> size, c |-> c,
     body |-> <<"fill">>, d |-> pMem, s |-> pMem, cnt |-> size + 1, pv |-> InitPattern(c),
     bstart |-> 0, bsize |-> 0, ret |-> pMem,
     asserts |-> <<pMem>>]

RhpInitMultibyte(pMem, c, size) ==
    [name |-> "RhpInitMultibyte", dest |-> pMem, src |-> pMem, len |-> size, c |-> c,
     body |-> <<"fill">>, d |-> pMem, s |-> pMem, cnt |-> size, pv |-> InitPattern(c),
     bstart |-> 0, bsize |-> 0, ret |-> pMem,
     asserts |-> <<pMem>>]

\* Variant: the source pointer is handed over one byte off, so not word-aligned.
memcpyGCRefs_MisalignedSrc(dest, src, len) ==
    [name |-> "memcpyGCRefs", dest |-> dest, src |-> src, len |-> len, c |-> 0,
     body |-> <<"fwd">>, d |-> dest, s |-> src + 1, cnt |-> len, pv |-> ZeroWord,
     bstart |-> 0, bsize |-> 0, ret |-> dest,
     asserts |-> <<dest, src>>]

\* Variant: the length is counted twice.
memcpyGCRefs_DoubleLength(dest, src, len) ==
    [name |-> "memcpyGCRefs", dest |-> dest, src |-> src, len |-> len, c |-> 0,
     body |-> <<"fwd">>, d |-> dest, s |-> src, cnt |-> 2 * len, pv |-> ZeroWord,
     bstart |-> 0, bsize |-> 0, ret |-> dest,
     asserts |-> <<dest, src>>]

\* Variant: the plain copy issues the bulk write barrier as well.
memcpyGCRefs_WithBarrier(dest, src, len) ==
    [name |-> "memcpyGCRefs", dest |-> dest, src |-> src, len |-> len, c |-> 0,
     body |-> <<"fwd", "barrier">>, d |-> dest, s |-> src, cnt |-> len, pv |-> ZeroWord,
     bstart |-> dest, bsize |-> UInt32(len), ret |-> dest,
     asserts |-> <<dest, src>>]

memcpyGCRefs(dest, src, len) ==
    [name |-> "memcpyGCRefs", dest |-> dest, src |-> src, len |-> len, c |-> 0,
     body |-> <<"fwd">>, d |-> dest, s |-> src, cnt |-> len, pv |-> ZeroWord,
     bstart |-> 0, bsize |-> 0, ret |-> dest,
     asserts |-> <<dest, src>>]

\* Variant: only the whole words of the length are copied.
memcpyGCRefsWithWriteBarrier_WholeWords(dest, src, len) ==
    [name |-> "memcpyGCRefsWithWriteBarrier", dest |-> dest, src |-> src, len |-> len, c |-> 0,
     body |-> <<"fwd", "barrier">>, d |-> dest, s |-> src, cnt |-> len - (len % ptrSize),
     pv |-> ZeroWord, bstart |-> dest, bsize |-> UInt32(len), ret |-> dest,
     asserts |-> <<dest, src>>]

\* Variant: the barriered copy decides on overlap as the move does.
memcpyGCRefsWithWriteBarrier_OverlapAware(dest, src, len) ==
    [name |-> "memcpyGCRefsWithWriteBarrier", dest |-> dest, src |-> src, len |-> len, c |-> 0,
     body |-> <<IF dest <= src \/ src + len <= dest THEN "fwd" ELSE "bwd", "barrier">>,
     d |-> dest, s |-> src, cnt |-> len,
     pv |-> ZeroWord, bstart |-> dest, bsize |-> UInt32(len), ret |-> dest,
     asserts |-> <<dest, src>>]

memcpyGCRefsWithWriteBarrier(dest, src, len) ==
    [name |-> "memcpyGCRefsWithWriteBarrier", dest |-> dest, src |-> src, len |-> len, c |-> 0,
     body |-> <<"fwd", "barrier">>, d |-> dest, s |-> src, cnt |-> len, pv |-> ZeroWord,
     bstart |-> dest, bsize |-> UInt32(len), ret |-> dest,
     asserts |-> <<dest, src>>]

\* Variant: the move first waits until the collector has taken note of it.
RhBulkMoveWithWriteBarrier_WaitsForCollector(pDest, pSrc, cbDest) ==
    [name |-> "RhBulkMoveWithWriteBarrier", dest |-> pDest, src |-> pSrc, len |-> cbDest, c |-> 0,
     body |-> <<"wait", IF pDest <= pSrc \/ pSrc + cbDest <= pDest THEN "fwd" ELSE "bwd", "barrier">>,
     d |-> pDest, s |-> pSrc, cnt |-> cbDest, pv |-> ZeroWord,
     bstart |-> pDest, bsize |-> UInt32(cbDest), ret |-> 0,
     asserts |-> <<>>]

\* Variant: no overlap decision, the move always copies forward.
RhBulkMoveWithWriteBarrier_AlwaysForward(pDest, pSrc, cbDest) ==
    [name |-> "RhBulkMoveWithWriteBarrier", dest |-> pDest, src |-> pSrc, len |-> cbDest, c |-> 0,
     body |-> <<"fwd", "barrier">>,
     d |-> pDest, s |-> pSrc, cnt |-> cbDest, pv |-> ZeroWord,
     bstart |-> pDest, bsize |-> UInt32(cbDest), ret |-> 0,
     asserts |-> <<>>]

\* Variant: pDest < pSrc in place of pDest <= pSrc.
RhBulkMoveWithWriteBarrier_StrictBelow(pDest, pSrc, cbDest) ==
    [name |-> "RhBulkMoveWithWriteBarrier", dest |-> pDest, src |-> pSrc, len |-> cbDest, c |-> 0,
     body |-> <<IF pDest < pSrc \/ pSrc + cbDest <= pDest THEN "fwd" ELSE "bwd", "barrier">>,
     d |-> pDest, s |-> pSrc, cnt |-> cbDest, pv |-> ZeroWord,
     bstart |-> pDest, bsize |-> UInt32(cbDest), ret |-> 0,
     asserts |-> <<>>]

\* Variant: the barrier is issued on the forward path only.
RhBulkMoveWithWriteBarrier_BarrierOnForward(pDest, pSrc, cbDest) ==
    [name |-> "RhBulkMoveWithWriteBarrier", dest |-> pDest, src |-> pSrc, len |-> cbDest, c |-> 0,
     body |-> IF pDest <= pSrc \/ pSrc + cbDest <= pDest THEN <<"fwd", "barrier">> ELSE <<"bwd">>,
     d |-> pDest, s |-> pSrc, cnt |-> cbDest, pv |-> ZeroWord,
     bstart |-> pDest, bsize |-> UInt32(cbDest), ret |-> 0,
     asserts |-> <<>>]

RhBulkMoveWithWriteBarrier(pDest, pSrc, cbDest) ==
    [name |-> "RhBulkMoveWithWriteBarrier", dest |-> pDest, src |-> pSrc, len |-> cbDest, c |-> 0,
     body |-> <<IF pDest <= pSrc \/ pSrc + cbDest <= pDest THEN "fwd" ELSE "bwd", "barrier">>,
     d |-> pDest, s |-> pSrc, cnt |-> cbDest, pv |-> ZeroWord,
     bstart |-> pDest, bsize |-> UInt32(cbDest), ret |-> 0,
     asserts |-> <<>>]

\* Variant: the last byte of the range is left out.
GCSafeZeroMemory_SkipsLastByte(dest, len) ==
    [name |-> "GCSafeZeroMemory", dest |-> dest, src |-> dest, len |-> len, c |-> 0,
     body |-> <<"fill">>, d |-> dest, s |-> dest,
     cnt |-> IF len > 0 THEN len - 1 ELSE 0, pv |-> ZeroWord,
     bstart |-> 0, bsize |-> 0, ret |-> 0,
     asserts |-> <<>>]

\* Variant: the length is rounded up to whole words.
GCSafeZeroMemory_WholeWords(dest, len) ==
    [name |-> "GCSafeZeroMemory", dest |-> dest, src |-> dest, len |-> len, c |-> 0,
     body |-> <<"fill">>, d |-> dest, s |-> dest,
     cnt |-> ((len + ptrSize - 1) \div ptrSize) * ptrSize, pv |-> ZeroWord,
     bstart |-> 0, bsize |-> 0, ret |-> 0,
     asserts |-> <<>>]

GCSafeZeroMemory(dest, len) ==
    [name |-> "GCSafeZeroMemory", dest |-> dest, src |-> dest, len |-> len, c |-> 0,
     body |-> <<"fill">>, d |-> dest, s |-> dest, cnt |-> len, pv |-> ZeroWord,
     bstart |-> 0, bsize |-> 0, ret |-> 0,
     asserts |-> <<>>]

\* Variant: the barrier is issued before the copy.
GCSafeCopyMemoryWithWriteBarrier_BarrierFirst(dest, src, len) ==
    [name |-> "GCSafeCopyMemoryWithWriteBarrier", dest |-> dest, src |-> src, len |-> len, c |-> 0,
     body |-> <<"barrier", "fwd">>, d |-> dest, s |-> src, cnt |-> len, pv |-> ZeroWord,
     bstart |-> dest, bsize |-> UInt32(len), ret |-> 0,
     asserts |-> <<>>]

GCSafeCopyMemoryWithWriteBarrier(dest, src, len) ==
    [name |-> "GCSafeCopyMemoryWithWriteBarrier", dest |-> dest, src |-> src, len |-> len, c |-> 0,
     body |-> <<"fwd", "barrier">>, d |-> dest, s |-> src, cnt |-> len, pv |-> ZeroWord,
     bstart |-> dest, bsize |-> UInt32(len), ret |-> 0,
     asserts |-> <<>>]

RhpBulkWriteBarrier(pMemStart, cbMemSize) ==
    [name |-> "RhpBulkWriteBarrier", dest |-> pMemStart, src |-> pMemStart, len |-> cbMemSize, c |-> 0,
     body |-> <<"barrier">>, d |-> pMemStart, s |-> pMemStart, cnt |-> 0, pv |-> ZeroWord,
     bstart |-> pMemStart, bsize |-> cbMemSize, ret |-> 0,
     asserts |-> <<>>]

\* The backward copy called on its own (copyBackward of the interface).
BackwardGCSafeCopy(dest, src, len) ==
    [name |-> "InlineBackwardGCSafeCopy", dest |-> dest, src |-> src, len |-> len, c |-> 0,
     body |-> <<"bwd">>, d |-> dest, s |-> src, cnt |-> len, pv |-> ZeroWord,
     bstart |-> 0, bsize |-> 0, ret |-> dest,
     asserts |-> <<>>]

\* ------------------------------------------------------------------ inputs

FillValues == {0, 256, 346, -1}
Lengths == 0 .. (MaxWords * ptrSize)

\* Ranges the caller owns: inside the heap window.
FillRanges == {r \in Heap \X Lengths : r[1] + r[2] <= HeapHi}
CopyArgs == {a \in WordAddrs \X WordAddrs \X Lengths :
                a[1] + a[3] <= HeapHi /\ a[2] + a[3] <= HeapHi}

NoSample == [addr |-> 0, val |-> ZeroWord, after |-> FALSE]
ZeroLimbs == <<0, 0, 0, 0>>
NoWide == [pc |-> "idle", name |-> "", dest |-> 0, len |-> ZeroLimbs, stored |-> ZeroLimbs, notes |-> <<>>]

Init ==
    /\ ptrSize \in {4, 8}
    /\ mem = InitialMemory
    /\ pc = 0
    /\ frame = RhpBulkWriteBarrier(0, 0)
    /\ n = 0
    /\ pre = mem
    /\ first = mem
    /\ calls = 0
    /\ log = <<>>
    /\ preLog = <<>>
    /\ seen = FALSE
    /\ sample = NoSample
    /\ wide = NoWide
    /\ debug = TRUE

\* The call has stopped: a failed ASSERT has aborted the process, or a store
\* or load through a null pointer has raised a hardware fault.
Aborted == -1
Faulted == -2

Idle == pc = 0
Done == pc > Len(frame.body)
At(stmt) == pc \in 1..Len(frame.body) /\ frame.body[pc] = stmt

\* The mutator enters the call f.
Enter(f) ==
    /\ frame' = f
    /\ pc' = IF debug /\ \E i \in DOMAIN f.asserts : f.asserts[i] = 0 THEN Aborted ELSE 1
    /\ n' = 0
    /\ UNCHANGED <<ptrSize, mem, pre, first, calls, log, preLog, seen, sample, wide, debug>>

CallRhpInitMultibyte ==
    /\ Idle
    /\ \E r \in FillRanges, c \in FillValues : Enter(RhpInitMultibyte(r[1], c, r[2]))

CallGCSafeZeroMemory ==
    /\ Idle
    /\ \E r \in FillRanges : Enter(GCSafeZeroMemory(r[1], r[2]))

CallmemcpyGCRefs ==
    /\ Idle
    /\ \E a \in CopyArgs : Enter(memcpyGCRefs(a[1], a[2], a[3]))

CallmemcpyGCRefsWithWriteBarrier ==
    /\ Idle
    /\ \E a \in CopyArgs : Enter(memcpyGCRefsWithWriteBarrier(a[1], a[2], a[3]))

CallRhBulkMoveWithWriteBarrier ==
    /\ Idle
    /\ \E a \in CopyArgs : Enter(RhBulkMoveWithWriteBarrier(a[1], a[2], a[3]))

CallGCSafeCopyMemoryWithWriteBarrier ==
    /\ Idle
    /\ \E a \in CopyArgs : Enter(GCSafeCopyMemoryWithWriteBarrier(a[1], a[2], a[3]))

CallRhpBulkWriteBarrier ==
    /\ Idle
    /\ \E r \in FillRanges : IS_ALIGNED(r[1]) /\ Enter(RhpBulkWriteBarrier(r[1], r[2]))

CallBackwardGCSafeCopy ==
    /\ Idle
    /\ \E a \in CopyArgs : Enter(BackwardGCSafeCopy(a[1], a[2], a[3]))

\* ------------------------------------------------------------------ inlined helpers

\* The running statement is finished. After the last one the call returns: it
\* counts, and the first call's result is remembered.
Advance ==
    /\ pc' = pc + 1
    /\ IF pc + 1 > Len(frame.body)
       THEN calls' = calls + 1 /\ first' = (IF calls = 0 THEN mem ELSE first)
       ELSE UNCHANGED <<calls, first>>

\* The next store or load of the running helper goes through a null pointer.
\* The page at address 0 is not mapped, and the lengths here are below a page.
NullAccess ==
    \/ At("fill") /\ n < frame.cnt /\ frame.d = 0
    \/ (At("fwd") \/ At("bwd")) /\ n < frame.cnt /\ (frame.d = 0 \/ frame.s = 0)

\* The access raises a hardware fault; this layer does not handle it.
AccessViolation ==
    /\ NullAccess
    /\ pc' = Faulted
    /\ UNCHANGED <<ptrSize, mem, frame, n, pre, first, calls, log, preLog, seen, sample, wide, debug>>

\* One store of the fill: bytes up to the first word boundary, whole words,
\* then the bytes left below one word.
InlineGCSafeFillMemory ==
    /\ At("fill") /\ n < frame.cnt /\ ~NullAccess
    /\ LET p == frame.d + n
           left == frame.cnt - n
       IN  IF IS_ALIGNED(p) /\ left >= ptrSize
           THEN mem' = StoreWord(mem, p, frame.pv) /\ n' = n + ptrSize
           ELSE mem' = StoreByte(mem, p, frame.pv[0]) /\ n' = n + 1
    /\ UNCHANGED <<ptrSize, pc, frame, pre, first, calls, log, preLog, seen, sample, wide, debug>>

\* One store of the forward copy, lowest address first.
InlineForwardGCSafeCopy ==
    /\ At("fwd") /\ n < frame.cnt /\ ~NullAccess
    /\ LET p == frame.d + n
           q == frame.s + n
           left == frame.cnt - n
       IN  IF IS_ALIGNED(p) /\ IS_ALIGNED(q) /\ left >= ptrSize
           THEN mem' = StoreWord(mem, p, WordAt(mem, q)) /\ n' = n + ptrSize
           ELSE mem' = StoreByte(mem, p, Load(mem, q)) /\ n' = n + 1
    /\ UNCHANGED <<ptrSize, pc, frame, pre, first, calls, log, preLog, seen, sample, wide, debug>>

\* One store of the backward copy, highest address first.
InlineBackwardGCSafeCopy ==
    /\ At("bwd") /\ n < frame.cnt /\ ~NullAccess
    /\ LET left == frame.cnt - n
           p == frame.d + left
           q == frame.s + left
       IN  IF IS_ALIGNED(p) /\ IS_ALIGNED(q) /\ left >= ptrSize
           THEN mem' = StoreWord(mem, p - ptrSize, WordAt(mem, q - ptrSize)) /\ n' = n + ptrSize
           ELSE mem' = StoreByte(mem, p - 1, Load(mem, q - 1)) /\ n' = n + 1
    /\ UNCHANGED <<ptrSize, pc, frame, pre, first, calls, log, preLog, seen, sample, wide, debug>>

\* The fill or copy helper has stored everything and returns to the entry point.
HelperReturn ==
    /\ (At("fill") \/ At("fwd") \/ At("bwd")) /\ n >= frame.cnt
    /\ Advance
    /\ UNCHANGED <<ptrSize, mem, frame, n, pre, log, preLog, seen, sample, wide, debug>>

\* notify(range): the recorder receives the range.
InlinedBulkWriteBarrier ==
    /\ At("barrier")
    /\ log' = Append(log, [start |-> frame.bstart, size |-> frame.bsize])
    /\ Advance
    /\ UNCHANGED <<ptrSize, mem, frame, n, pre, preLog, seen, sample, wide, debug>>

\* The caller issues the same call again.
Repeat ==
    /\ ~Idle /\ Done /\ calls < MaxCalls
    /\ pc' = 1
    /\ n' = 0
    /\ pre' = mem
    /\ preLog' = log
    /\ seen' = FALSE
    /\ sample' = NoSample
    /\ UNCHANGED <<ptrSize, mem, frame, first, calls, log, wide, debug>>

\* ------------------------------------------------------------------ observer

\* Aligned words with at least one byte in the call's destination range.
DestWords == {a \in WordAddrs : a < frame.dest + frame.len /\ frame.dest < a + ptrSize}

\* The collector finds the barrier record of the running call.
ObserveBarrier ==
    /\ ~Idle /\ ~seen /\ Len(log) > Len(preLog)
    /\ seen' = TRUE
    /\ UNCHANGED <<ptrSize, mem, pc, frame, n, pre, first, calls, log, preLog, sample, wide, debug>>

\* Another thread loads one word of the destination.
ReadWord ==
    /\ ~Idle
    /\ \E a \in DestWords : sample' = [addr |-> a, val |-> WordAt(mem, a), after |-> seen]
    /\ UNCHANGED <<ptrSize, mem, pc, frame, n, pre, first, calls, log, preLog, seen, wide, debug>>

Next ==
    \/ CallRhpInitMultibyte
    \/ CallGCSafeZeroMemory
    \/ CallmemcpyGCRefs
    \/ CallmemcpyGCRefsWithWriteBarrier
    \/ CallRhBulkMoveWithWriteBarrier
    \/ CallGCSafeCopyMemoryWithWriteBarrier
    \/ CallRhpBulkWriteBarrier
    \/ CallBackwardGCSafeCopy
    \/ InlineGCSafeFillMemory
    \/ InlineForwardGCSafeCopy
    \/ InlineBackwardGCSafeCopy
    \/ HelperReturn
    \/ InlinedBulkWriteBarrier
    \/ Repeat
    \/ ObserveBarrier
    \/ ReadWord

Spec == Init /\ [][Next]_vars

\* The steps of the calling mutator inside a call. No statement of an entry
\* point or helper waits on another thread, so the mutator, once scheduled,
\* takes the next of these steps.
MutatorStep ==
    \/ InlineGCSafeFillMemory
    \/ InlineForwardGCSafeCopy
    \/ InlineBackwardGCSafeCopy
    \/ HelperReturn
    \/ InlinedBulkWriteBarrier

\* The program with the calling mutator scheduled fairly; the collector and
\* the other threads run as they like.
FairSpec == Spec /\ WF_vars(MutatorStep)

\* ------------------------------------------------------------------ null ranges

\* Calls of the entry points whose pointers may be null, in a debug or a
\* release build.
NullablePtrs == {0, HeapLo, HeapLo + ptrSize}
NullableLengths == {0, ptrSize, 2 * ptrSize}
NullableCalls ==
    LET fills == {r \in NullablePtrs \X NullableLengths : r[1] + r[2] <= HeapHi}
        copies == {a \in NullablePtrs \X NullablePtrs \X NullableLengths :
                     a[1] + a[3] <= HeapHi /\ a[2] + a[3] <= HeapHi}
    IN  {RhpInitMultibyte(r[1], 346, r[2]) : r \in fills}
          \cup {GCSafeZeroMemory(r[1], r[2]) : r \in fills}
          \cup {RhpBulkWriteBarrier(r[1], r[2]) : r \in fills}
          \cup {memcpyGCRefs(a[1], a[2], a[3]) : a \in copies}
          \cup {memcpyGCRefsWithWriteBarrier(a[1], a[2], a[3]) : a \in copies}
          \cup {RhBulkMoveWithWriteBarrier(a[1], a[2], a[3]) : a \in copies}
          \cup {GCSafeCopyMemoryWithWriteBarrier(a[1], a[2], a[3]) : a \in copies}

CallEntryPoint ==
    /\ Idle
    /\ \E f \in NullableCalls : Enter(f)

NullInit ==
    /\ ptrSize \in {4, 8}
    /\ mem = InitialMemory
    /\ pc = 0
    /\ frame = RhpBulkWriteBarrier(0, 0)
    /\ n = 0
    /\ pre = mem
    /\ first = mem
    /\ calls = 0
    /\ log = <<>>
    /\ preLog = <<>>
    /\ seen = FALSE
    /\ sample = NoSample
    /\ wide = NoWide
    /\ debug \in BOOLEAN

NullNext ==
    \/ CallEntryPoint
    \/ InlineGCSafeFillMemory
    \/ InlineForwardGCSafeCopy
    \/ InlineBackwardGCSafeCopy
    \/ HelperReturn
    \/ InlinedBulkWriteBarrier
    \/ AccessViolation

NullSpec == NullInit /\ [][NullNext]_vars

\* ------------------------------------------------------------------ full-width lengths

\* The barriered entry points with their length at the width of its parameter
\* type: size_t len (as wide as a pointer) or int cbDest. A length is four
\* 16-bit limbs; the copy is followed by its extent only.
WideNames == {"memcpyGCRefsWithWriteBarrier", "GCSafeCopyMemoryWithWriteBarrier",
              "RhBulkMoveWithWriteBarrier"}

\* Lengths a size_t holds in this build, and non-negative lengths an int holds.
SizeTLengths ==
    {<<a, b, c, 0>> : a \in {0, 8, 65528}, b \in {0, 1, 65535},
                      c \in (IF ptrSize = 8 THEN {0, 1} ELSE {0})}
IntLengths == {<<a, b, 0, 0>> : a \in {0, 8, 65528}, b \in {0, 1, 32767}}
WideLengths(name) == IF name = "RhBulkMoveWithWriteBarrier" THEN IntLengths ELSE SizeTLengths

\* The size each entry point hands to InlinedBulkWriteBarrier (UInt32 cbMemSize).
WideBarrierSize(name, len) == NarrowTo32(len)

WideCall ==
    /\ wide.pc = "idle"
    /\ \E name \in WideNames, dest \in WordAddrs :
         \E len \in WideLengths(name) :
            wide' = [pc |-> "copy", name |-> name, dest |-> dest, len |-> len,
                     stored |-> ZeroLimbs, notes |-> <<>>]
    /\ UNCHANGED <<ptrSize, mem, pc, frame, n, pre, first, calls, log, preLog, seen, sample, debug>>

\* The copy stores len bytes from dest upwards.
WideGCSafeCopy ==
    /\ wide.pc = "copy"
    /\ wide' = [wide EXCEPT !.pc = "barrier", !.stored = wide.len]
    /\ UNCHANGED <<ptrSize, mem, pc, frame, n, pre, first, calls, log, preLog, seen, sample, debug>>

WideBulkWriteBarrier ==
    /\ wide.pc = "barrier"
    /\ wide' = [wide EXCEPT !.pc = "done",
                            !.notes = Append(wide.notes,
                                [start |-> wide.dest, size |-> WideBarrierSize(wide.name, wide.len)])]
    /\ UNCHANGED <<ptrSize, mem, pc, frame, n, pre, first, calls, log, preLog, seen, sample, debug>>

WideNext == WideCall \/ WideGCSafeCopy \/ WideBulkWriteBarrier

WideSpec == Init /\ [][WideNext]_vars

\* ------------------------------------------------------------------ reference semantics

InRange(a, lo, len) == lo <= a /\ a < lo + len
Disjoint(a, b, len) == a + len <= b \/ b + len <= a

\* Every byte of the range is v.
FillRef(m, dest, len, v) == [a \in DOMAIN m |-> IF InRange(a, dest, len) THEN v ELSE m[a]]

\* Read all of src into a temporary buffer, then write it to dest.
MoveRef(m, dest, src, len) ==
    [a \in DOMAIN m |-> IF InRange(a, dest, len) THEN Load(m, src + (a - dest)) ELSE m[a]]

\* Byte-by-byte copy in ascending address order.
RECURSIVE ForwardRef(_, _, _, _, _)
ForwardRef(m, dest, src, len, i) ==
    IF i >= len THEN m
    ELSE ForwardRef(StoreByte(m, dest + i, Load(m, src + i)), dest, src, len, i + 1)

\* Byte-by-byte copy in descending address order.
RECURSIVE BackwardRef(_, _, _, _)
BackwardRef(m, dest, src, left) ==
    IF left <= 0 THEN m
    ELSE BackwardRef(StoreByte(m, dest + left - 1, Load(m, src + left - 1)), dest, src, left - 1)

FillNames == {"RhpInitMultibyte", "GCSafeZeroMemory"}
ForwardNames == {"memcpyGCRefs", "memcpyGCRefsWithWriteBarrier", "GCSafeCopyMemoryWithWriteBarrier"}
BarrieredNames == {"memcpyGCRefsWithWriteBarrier", "GCSafeCopyMemoryWithWriteBarrier",
                   "RhBulkMoveWithWriteBarrier"}

\* The memory the running call is to leave, from the memory it started with.
Expected ==
    IF frame.name \in FillNames THEN FillRef(pre, frame.dest, frame.len, UInt8(frame.c))
    ELSE IF frame.name = "RhBulkMoveWithWriteBarrier" THEN MoveRef(pre, frame.dest, frame.src, frame.len)
    ELSE IF frame.name \in ForwardNames THEN ForwardRef(pre, frame.dest, frame.src, frame.len, 0)
    ELSE IF frame.name = "InlineBackwardGCSafeCopy" THEN BackwardRef(pre, frame.dest, frame.src, frame.len)
    ELSE pre

DestRange == {a \in Heap : InRange(a, frame.dest, frame.len)}
Sampled == ~Idle /\ sample.addr # 0

\* ------------------------------------------------------------------ properties

\* C1: for a word-aligned destination range, whatever the interleaving of the
\* fill or copy with a thread loading one word of the destination, the loaded
\* word is the word as it was before the call or the word the call leaves
\* there, never a mixture of the two.
WordAtomicity ==
    (Sampled /\ IS_ALIGNED(frame.dest) /\ frame.len % ptrSize = 0)
        => sample.val \in {WordAt(pre, sample.addr), WordAt(Expected, sample.addr)}

\* A new word has been loaded while the forward copy still has words to store.
WordAtomicityWitness ==
    /\ Sampled /\ frame.name = "memcpyGCRefs"
    /\ IS_ALIGNED(frame.dest) /\ frame.len % ptrSize = 0
    /\ 0 < n /\ n < frame.len
    /\ sample.val = WordAt(Expected, sample.addr)
    /\ sample.val # WordAt(pre, sample.addr)

\* C2: when RhBulkMoveWithWriteBarrier has returned, dest holds what src held
\* when the call began, however the two ranges overlap.
MoveMatchesReference ==
    (~Idle /\ Done /\ frame.name = "RhBulkMoveWithWriteBarrier")
        => \A a \in DestRange : mem[a] = MoveRef(pre, frame.dest, frame.src, frame.len)[a]

\* A move of several words whose dest lies inside the source range has returned.
MoveMatchesReferenceWitness ==
    /\ ~Idle /\ Done /\ frame.name = "RhBulkMoveWithWriteBarrier"
    /\ frame.src < frame.dest /\ frame.dest < frame.src + frame.len
    /\ frame.len > 2 * ptrSize

\* C3: RhBulkMoveWithWriteBarrier runs the backward copy exactly when
\* src < dest < src + length, and the forward copy otherwise.
BackwardIffDestInsideSrc ==
    (~Idle /\ frame.name = "RhBulkMoveWithWriteBarrier")
        => ((frame.body[1] = "bwd")
              <=> (frame.src < frame.dest /\ frame.dest < frame.src + frame.len))

\* The backward copy of a move is under way.
BackwardIffDestInsideSrcWitness ==
    /\ frame.name = "RhBulkMoveWithWriteBarrier"
    /\ At("bwd") /\ 0 < n /\ n < frame.len

\* C4: a barriered entry point notifies the recorder once per call, for the
\* destination, and not before every data store of the copy is done.
BarrierOnceAfterCopy ==
    (~Idle /\ frame.name \in BarrieredNames)
        => /\ Len(log) <= Len(preLog) + 1
           /\ (Len(log) > Len(preLog)
                 => /\ n >= frame.len
                    /\ \A a \in DestRange : mem[a] = Expected[a]
                    /\ log[Len(log)].start = frame.dest)
           /\ (Done => Len(log) = Len(preLog) + 1)

\* A move that copied backward has returned with its one notification.
BarrierOnceAfterCopyWitness ==
    /\ ~Idle /\ Done /\ frame.name = "RhBulkMoveWithWriteBarrier"
    /\ frame.body[1] = "bwd" /\ frame.len >= ptrSize
    /\ Len(log) = Len(preLog) + 1

\* a <= b for two lengths of four limbs
LimbLE(a, b) ==
    \/ a = b
    \/ \E i \in 1..4 : a[i] < b[i] /\ \A j \in (i + 1)..4 : a[j] = b[j]
Widen(l) == <<l[1], l[2], 0, 0>>

\* C5: after a barriered call, the range reported to the recorder starts at
\* dest and is at least as long as the range the copy stored.
BarrierCoversRange ==
    wide.pc = "done"
        => \E i \in 1..Len(wide.notes) :
              /\ wide.notes[i].start = wide.dest
              /\ LimbLE(wide.stored, Widen(wide.notes[i].size))

FillCorrect ==
    (~Idle /\ Done /\ frame.name \in FillNames)
        => \A a \in DestRange : mem[a] = frame.c % 256

\* A fill from an unaligned address over more than two words has returned.
FillCorrectWitness ==
    /\ ~Idle /\ Done /\ frame.name = "RhpInitMultibyte"
    /\ ~IS_ALIGNED(frame.dest) /\ frame.len > 2 * ptrSize
    /\ frame.c = 346

\* C8: a word of the destination loaded after the collector has seen the
\* call's barrier record is the word the copy leaves there.
CollectorSeesWrittenData ==
    (Sampled /\ sample.after /\ frame.name \in BarrieredNames)
        => sample.val = WordAt(Expected, sample.addr)

\* The collector has seen the record and then loaded a word the copy changed.
CollectorSeesWrittenDataWitness ==
    /\ Sampled /\ sample.after /\ frame.name = "GCSafeCopyMemoryWithWriteBarrier"
    /\ sample.val # WordAt(pre, sample.addr)

\* C9: a call with length 0 leaves the whole memory as it was.
ZeroLengthNoWrite ==
    (~Idle /\ frame.len = 0) => (mem = pre /\ mem = InitialMemory)

\* A zero-length move between two different addresses has returned.
ZeroLengthNoWriteWitness ==
    /\ ~Idle /\ Done /\ frame.len = 0
    /\ frame.name = "RhBulkMoveWithWriteBarrier" /\ frame.dest # frame.src

\* C10 as stated: the same fill, copy or move issued twice leaves the memory
\* the first call left.
IdempotentAlways ==
    (~Idle /\ Done /\ calls >= 2 /\ frame.name \in FillNames \cup ForwardNames \cup {"RhBulkMoveWithWriteBarrier"})
        => mem = first

\* C10, amended: the same fill issued twice, or the same copy or move issued
\* twice with src and dest ranges that are disjoint or identical, leaves the
\* memory the first call left.
IdempotentWithoutPartialOverlap ==
    (/\ ~Idle /\ Done /\ calls >= 2
     /\ frame.name \in FillNames \cup ForwardNames \cup {"RhBulkMoveWithWriteBarrier"}
     /\ \/ frame.name \in FillNames
        \/ Disjoint(frame.dest, frame.src, frame.len)
        \/ frame.dest = frame.src)
        => mem = first

\* The same copy of at least a word between disjoint ranges has returned twice.
IdempotentWithoutPartialOverlapWitness ==
    /\ ~Idle /\ Done /\ calls >= 2 /\ frame.name = "memcpyGCRefs"
    /\ Disjoint(frame.dest, frame.src, frame.len) /\ frame.len >= ptrSize

\* C11: a call of memcpyGCRefs, RhpInitMultibyte or GCSafeZeroMemory leaves
\* the recorder as it was; whenever the recorder has received a notification,
\* the call is a barriered entry point or RhpBulkWriteBarrier.
PlainNames == {"memcpyGCRefs", "RhpInitMultibyte", "GCSafeZeroMemory"}
PlainLeavesRecorder ==
    /\ (~Idle /\ frame.name \in PlainNames) => (log = preLog /\ log = <<>>)
    /\ (log # <<>>) => frame.name \in BarrieredNames \cup {"RhpBulkWriteBarrier"}

\* A plain copy of at least a word has returned, the recorder still empty.
PlainLeavesRecorderWitness ==
    /\ ~Idle /\ Done /\ frame.name = "memcpyGCRefs" /\ frame.len >= ptrSize
    /\ mem # pre /\ log = <<>>

\* C14: every byte outside [dest, dest + length) keeps the value it had when
\* the call began; with disjoint ranges this includes all of src.
WritesOnlyInsideDest ==
    ~Idle => /\ \A a \in Heap \ DestRange : mem[a] = pre[a]
             /\ (Disjoint(frame.dest, frame.src, frame.len)
                   => \A i \in 0..(frame.len - 1) :
                         Load(mem, frame.src + i) = Load(pre, frame.src + i))

\* A zero fill whose range ends inside a word, with bytes left above it, has returned.
WritesOnlyInsideDestWitness ==
    /\ ~Idle /\ Done /\ frame.name = "GCSafeZeroMemory"
    /\ frame.len > ptrSize /\ ~IS_ALIGNED(frame.dest + frame.len)
    /\ frame.dest + frame.len < HeapHi

\* C17: the fill word of RhpInitMultibyte has wordSize bytes, each equal to
\* c mod 256 (so it is 0 when c mod 256 = 0), and the fill leaves no other
\* new byte value in memory.
FillWordReplicatesByte ==
    (~Idle /\ frame.name = "RhpInitMultibyte")
        => /\ frame.pv = [i \in 0..(ptrSize - 1) |-> frame.c % 256]
           /\ (frame.c % 256 = 0 => frame.pv = ZeroWord)
           /\ \A a \in Heap : mem[a] = pre[a] \/ mem[a] = frame.c % 256

\* A fill with c = 346 has stored a whole word on a 64-bit build.
FillWordReplicatesByteWitness ==
    /\ frame.name = "RhpInitMultibyte" /\ frame.c = 346 /\ ptrSize = 8
    /\ At("fill") /\ n >= ptrSize
    /\ \E a \in WordAddrs : WordAt(mem, a) = [i \in 0..7 |-> 90]

\* C18: memcpyGCRefsWithWriteBarrier and GCSafeCopyMemoryWithWriteBarrier
\* always copy forward, also when dest lies inside the source range, and
\* return with the memory memcpyGCRefs(dest, src, len) leaves and the one
\* notification RhpBulkWriteBarrier(dest, len) gives.
StraightBarrieredNames == {"memcpyGCRefsWithWriteBarrier", "GCSafeCopyMemoryWithWriteBarrier"}
StraightBarrieredCopy ==
    (~Idle /\ frame.name \in StraightBarrieredNames)
        => LET plain == memcpyGCRefs(frame.dest, frame.src, frame.len)
               note == RhpBulkWriteBarrier(frame.dest, frame.len)
           IN  /\ frame.body[1] = "fwd"
               /\ plain.body = <<"fwd">>
               /\ Done => /\ mem = ForwardRef(pre, plain.d, plain.s, plain.cnt, 0)
                          /\ log = Append(preLog, [start |-> note.bstart, size |-> note.bsize])

\* A barriered copy of two words or more with dest inside the source range has returned.
StraightBarrieredCopyWitness ==
    /\ ~Idle /\ Done /\ frame.name = "memcpyGCRefsWithWriteBarrier"
    /\ frame.src < frame.dest /\ frame.dest < frame.src + frame.len
    /\ frame.len >= 2 * ptrSize

\* A store of a running fill: a step of the fill statement that moves n.
FillStore == At("fill") /\ frame.name \in FillNames /\ pc' = pc /\ n' # n

\* C15: each store of a fill that begins in a word-aligned slot lying wholly
\* inside [dest, dest + len) is one word-sized store of that whole slot, made
\* at the slot's first byte; every other store is a byte store of a byte of
\* the range that lies in a slot cut by the range's start or end.
WholeSlotsByWordStore ==
    [][FillStore =>
         LET a == frame.dest + n
             slot == a - (a % ptrSize)
             whole == frame.dest <= slot /\ slot + ptrSize <= frame.dest + frame.len
         IN  IF whole
             THEN a = slot /\ n' = n + ptrSize /\ mem' = StoreWord(mem, slot, frame.pv)
             ELSE /\ n' = n + 1 /\ mem' = StoreByte(mem, a, frame.pv[0])
                  /\ InRange(a, frame.dest, frame.len)
                  /\ (slot < frame.dest \/ frame.dest + frame.len < slot + ptrSize)]_vars

\* A fill from an unaligned start has stored leading bytes, a word and a trailing byte.
WholeSlotsByWordStoreWitness ==
    /\ ~Idle /\ Done /\ frame.name = "RhpInitMultibyte"
    /\ ~IS_ALIGNED(frame.dest) /\ ~IS_ALIGNED(frame.dest + frame.len)
    /\ \E a \in WordAddrs : frame.dest < a /\ a + ptrSize < frame.dest + frame.len
    /\ n = frame.len

\* The three zones of a fill whose leading zone has lead bytes: the store at
\* offset n is a byte store in the leading and trailing zones and a word
\* store in the middle zone, the trailing zone is shorter than a word, and a
\* returned fill has passed every byte of the range once.
ThreeZones(lead) ==
    LET len == frame.len
        l == IF lead < len THEN lead ELSE len
        mid == ((len - l) \div ptrSize) * ptrSize
    IN  /\ FillStore =>
            /\ n < len
            /\ len - l - mid < ptrSize
            /\ IF n < l \/ n >= l + mid
               THEN n' = n + 1 /\ mem' = StoreByte(mem, frame.dest + n, frame.pv[0])
               ELSE /\ (n - l) % ptrSize = 0
                    /\ n' = n + ptrSize
                    /\ mem' = StoreWord(mem, frame.dest + n, frame.pv)
        /\ (~Idle /\ Done /\ frame.name \in FillNames) => n = len

\* C16 as stated: the leading zone has exactly (start mod wordSize) bytes.
FillZonesLeadStartMod == [][ThreeZones(frame.dest % ptrSize)]_vars

\* C16 amended: the leading zone has the bytes from start up to the first
\* word boundary, (wordSize - start mod wordSize) mod wordSize of them, or
\* the whole range if it ends before that boundary.
FillZonesLeadToBoundary == [][ThreeZones((ptrSize - (frame.dest % ptrSize)) % ptrSize)]_vars

\* A fill one byte past a word boundary has written more leading bytes than
\* start mod wordSize and then a whole word.
FillZonesLeadToBoundaryWitness ==
    /\ ~Idle /\ Done /\ frame.name = "GCSafeZeroMemory"
    /\ frame.dest % ptrSize = 1 /\ frame.len >= 2 * ptrSize /\ n = frame.len

\* C13: under fair scheduling of the calling mutator, every call that has
\* begun returns, and every barriered call that has not yet notified the
\* recorder does so, whatever the collector and the other threads do meanwhile.
InCall == ~Idle /\ ~Done
CallsRunToCompletion ==
    /\ InCall ~> Done
    /\ (InCall /\ frame.name \in BarrieredNames /\ log = preLog) ~> (log # preLog)

\* A backward move of two words or more is under way, with another thread
\* having sampled its destination, and nothing notified yet.
CallsRunToCompletionWitness ==
    /\ At("bwd") /\ frame.name = "RhBulkMoveWithWriteBarrier"
    /\ 0 < n /\ n < frame.cnt /\ sample.addr # 0 /\ log = preLog

\* C12: in a debug build, a call with a null mem, dest or src has aborted on
\* an ASSERT at entry, with memory and the recorder as they were.
NullRange == frame.dest = 0 \/ frame.src = 0
NullRangeAsserts ==
    (debug /\ ~Idle /\ NullRange) => (pc = Aborted /\ mem = pre /\ log = preLog)

====
